---- MODULE Spec2Model ----
(***************************************************************************)
(* The indexing and retrieval engine of resumeRAG: KeywordIndexer (BM25),  *)
(* SemanticIndexer and EnhancedSemanticIndexer, as state machines, the     *)
(* factory that makes them and the RAGService that holds one per session.  *)
(*                                                                         *)
(* A text is a sequence of characters (one-character strings).  Words of   *)
(* the corpus are short, so that chunking, tokenising and the term         *)
(* statistics run on real character data within small bounds.  Time stamps *)
(* (indexed_at, created_at) are left out: no operation reads them.         *)
(***************************************************************************)
EXTENDS Integers, Sequences, FiniteSets, TLC

VARIABLES
    kind,                  \* the indexer class: "keyword", "semantic" or "enhanced"
                           \* ("none" while no indexer is constructed)
    documents,             \* self.documents: sequence of IndexedDocument
    index_stats,           \* self.index_stats
    term_frequencies,      \* KeywordIndexer: chunk id -> (term -> count)
    document_frequencies,  \* KeywordIndexer: term -> number of chunks
    total_documents,       \* KeywordIndexer.total_documents
    avg_doc_length,        \* KeywordIndexer.avg_doc_length, the fraction num/den
    doc_lengths,           \* KeywordIndexer: chunk id -> token count
    store,                 \* what the vector-store adapter holds (add_texts)
    full_text,             \* EnhancedSemanticIndexer.full_text
    next_uuid,             \* number of uuid4() values drawn so far
    phase,                 \* "fresh", "indexed", or "deleted" (delete returned True)
    ret,                   \* the last call: its name, arguments and outcome
    writer,                \* a thread inside KeywordIndexer.index_document
    reader,                \* a thread inside KeywordIndexer.search
    active_sessions,       \* RAGService.active_sessions: session id -> session data
    indexing_strategy      \* settings.indexing_strategy

vars == <<kind, documents, index_stats, term_frequencies, document_frequencies,
          total_documents, avg_doc_length, doc_lengths, store, full_text,
          next_uuid, phase, ret, writer, reader, active_sessions,
          indexing_strategy>>

kwVars == <<term_frequencies, document_frequencies, total_documents,
            avg_doc_length, doc_lengths>>

vecVars == <<store, full_text>>

threadVars == <<writer, reader>>

ragVars == <<active_sessions, indexing_strategy>>

(***************************************************************************)
(* Bounds of the model.                                                    *)
(***************************************************************************)
\* index_document calls in one run (each draws one uuid)
MaxDocs == 2

\* settings.chunk_size as configured for the run, in characters
ChunkSize == 6

(***************************************************************************)
(* Python values.                                                          *)
(***************************************************************************)
None == "None"

\* the session this indexer was constructed for, and another one
session_id == "s1"

ForeignSession == "s2"

EmptyDict == [k \in {} |-> None]

\* no thread is inside index_document, none inside search
WriterIdle ==
    [pc |-> "idle", doc_id |-> None, base_metadata |-> EmptyDict, chunks |-> <<>>,
     i |-> 0, pending |-> {}, before |-> EmptyDict]

ReaderIdle ==
    [pc |-> "idle", query |-> <<>>, pos |-> 0, scores |-> <<>>, raised |-> FALSE,
     value |-> <<>>]

\* dict.get(key): None when the key is absent
Get(d, k) == IF k \in DOMAIN d THEN d[k] ELSE None

\* {**a, **b}, and a.update(b): the keys of b win
Merge(a, b) == [k \in (DOMAIN a) \cup (DOMAIN b) |-> IF k \in DOMAIN b THEN b[k] ELSE a[k]]

\* str(uuid.uuid4()): the n-th value drawn, all distinct
Uuid(n) == <<"d1", "d2", "d3", "d4", "d5", "d6">>[n]

\* f"{doc_id}_{i}"
ChunkId(doc_id, i) == <<doc_id, i>>

Range(s) == {s[i] : i \in DOMAIN s}

RECURSIVE SumOver(_, _)
SumOver(f, S) ==
    IF S = {} THEN 0
    ELSE LET x == CHOOSE y \in S : TRUE IN f[x] + SumOver(f, S \ {x})

(***************************************************************************)
(* Characters and strings.                                                 *)
(***************************************************************************)
Terminators == {".", "!", "?"}

Whitespace == {" ", "\n"}

Uppers == <<"A", "B", "C", "D", "E", "F", "G", "H", "I", "J", "K", "L", "M",
            "N", "O", "P", "Q", "R", "S", "T", "U", "V", "W", "X", "Y", "Z">>

Lowers == <<"a", "b", "c", "d", "e", "f", "g", "h", "i", "j", "k", "l", "m",
            "n", "o", "p", "q", "r", "s", "t", "u", "v", "w", "x", "y", "z">>

UpperToLower == [c \in {Uppers[i] : i \in DOMAIN Uppers} |->
                    Lowers[CHOOSE i \in DOMAIN Uppers : Uppers[i] = c]]

LowerChar(c) == IF c \in DOMAIN UpperToLower THEN UpperToLower[c] ELSE c

\* str.lower()
Lower(text) == [i \in DOMAIN text |-> LowerChar(text[i])]

\* the regular expression class \w
IsWordChar(c) == c \notin Terminators /\ c \notin Whitespace /\ c # "@"

RECURSIVE LStrip(_)
LStrip(text) ==
    IF text # <<>> /\ Head(text) \in Whitespace THEN LStrip(Tail(text)) ELSE text

RECURSIVE RStrip(_)
RStrip(text) ==
    IF text # <<>> /\ text[Len(text)] \in Whitespace
    THEN RStrip(SubSeq(text, 1, Len(text) - 1)) ELSE text

\* str.strip()
Strip(text) == RStrip(LStrip(text))

RECURSIVE SkipTerminators(_)
SkipTerminators(text) ==
    IF text # <<>> /\ Head(text) \in Terminators THEN SkipTerminators(Tail(text)) ELSE text

\* re.split(r'[.!?]+', text), cur being the piece read so far
RECURSIVE ReSplit(_, _)
ReSplit(text, cur) ==
    IF text = <<>> THEN <<cur>>
    ELSE IF Head(text) \in Terminators
         THEN <<cur>> \o ReSplit(SkipTerminators(Tail(text)), <<>>)
         ELSE ReSplit(Tail(text), Append(cur, Head(text)))

\* re.findall(r'\b\w+\b', text): the maximal runs of word characters
RECURSIVE FindWords(_, _)
FindWords(text, cur) ==
    IF text = <<>> THEN (IF cur = <<>> THEN <<>> ELSE <<cur>>)
    ELSE IF IsWordChar(Head(text))
         THEN FindWords(Tail(text), Append(cur, Head(text)))
         ELSE (IF cur = <<>> THEN <<>> ELSE <<cur>>) \o FindWords(Tail(text), <<>>)

\* KeywordIndexer._preprocess_text
PreprocessText(text) == FindWords(Lower(text), <<>>)

\* collections.Counter(words), as a dict
Counter(words) ==
    [w \in Range(words) |-> Cardinality({i \in DOMAIN words : words[i] = w})]

\* PackSentences with a sentence appended while the lengths add up to chunk_size
RECURSIVE PackSentencesLoose(_, _, _)
PackSentencesLoose(sentences, chunks, current_chunk) ==
    IF sentences = <<>>
    THEN (IF current_chunk # <<>> THEN Append(chunks, current_chunk) ELSE chunks)
    ELSE LET sentence == Strip(Head(sentences))
             rest == Tail(sentences)
         IN  IF sentence = <<>> THEN PackSentencesLoose(rest, chunks, current_chunk)
             ELSE IF Len(current_chunk) + Len(sentence) <= ChunkSize
                  THEN PackSentencesLoose(rest, chunks,
                           IF current_chunk # <<>>
                           THEN current_chunk \o <<" ">> \o sentence
                           ELSE sentence)
                  ELSE PackSentencesLoose(rest,
                           IF current_chunk # <<>> THEN Append(chunks, current_chunk)
                           ELSE chunks,
                           sentence)

\* KeywordIndexer._chunk_text: the loop over the sentences
RECURSIVE PackSentences(_, _, _)
PackSentences(sentences, chunks, current_chunk) ==
    IF sentences = <<>>
    THEN (IF current_chunk # <<>> THEN Append(chunks, current_chunk) ELSE chunks)
    ELSE LET sentence == Strip(Head(sentences))
             rest == Tail(sentences)
         IN  IF sentence = <<>> THEN PackSentences(rest, chunks, current_chunk)
             ELSE IF Len(current_chunk) + Len(sentence) < ChunkSize
                  THEN PackSentences(rest, chunks,
                           IF current_chunk # <<>>
                           THEN current_chunk \o <<" ">> \o sentence
                           ELSE sentence)
                  ELSE PackSentences(rest,
                           IF current_chunk # <<>> THEN Append(chunks, current_chunk)
                           ELSE chunks,
                           sentence)

\* KeywordIndexer._chunk_text
ChunkText(text) ==
    LET chunks == PackSentences(ReSplit(text, <<>>), <<>>, <<>>)
    IN  IF chunks # <<>> THEN chunks ELSE <<text>>

(***************************************************************************)
(* Inputs.                                                                 *)
(***************************************************************************)
\* "Python is great. SQL is also great." with one-letter words
DocScenarioB == <<"P", " ", "i", " ", "g", ".", " ", "S", " ", "i", " ", "a", " ", "g", ".">>

\* "s s. x y. x y": a chunk with a repeated word, then two chunks with the
\* same tokens
DocTwins == <<"s", " ", "s", ".", " ", "x", " ", "y", ".", " ", "x", " ", "y">>

KwCorpus == { DocScenarioB, DocTwins }

\* metadata maps a caller passes to index_document
Metadatas == {
    EmptyDict,
    [source |-> "cv"],
    [session_id |-> ForeignSession] }

KwQueries == { <<"P">>, <<"x", " ", "z">>, <<"z">>, <<"?">> }

\* filters a caller passes to search (the empty dict stands for None as well)
Filters == {
    EmptyDict,
    [source |-> "cv"],
    [session_id |-> ForeignSession] }

TopKs == {1, 5}

\* the record of a call: op(query, top_k, filters) returned value, or raised;
\* calls lists the calls it made to the vector-store adapter.  For
\* index_document, query is the document and filters the metadata.
Ret(op, raised, value, query, filters, top_k, calls) ==
    [op |-> op, raised |-> raised, value |-> value, query |-> query,
     filters |-> filters, top_k |-> top_k, calls |-> calls]

(***************************************************************************)
(* BaseIndexer.                                                            *)
(***************************************************************************)
ZeroStats == [documents_indexed |-> 0, chunks_created |-> 0, last_updated |-> None]

\* UpdateStats with documents_added left out
UpdateStatsChunksOnly(stats, documents_added, chunks_added) ==
    [documents_indexed |-> stats.documents_indexed,
     chunks_created |-> stats.chunks_created + chunks_added,
     last_updated |-> "utcnow"]

\* BaseIndexer.update_stats
UpdateStats(stats, documents_added, chunks_added) ==
    [documents_indexed |-> stats.documents_indexed + documents_added,
     chunks_created |-> stats.chunks_created + chunks_added,
     last_updated |-> "utcnow"]

\* base_metadata of index_document: the caller's metadata is merged last
BaseMetadata(doc_id, metadata) ==
    Merge([session_id |-> session_id, doc_id |-> doc_id], metadata)

\* chunk_metadata of KeywordIndexer/SemanticIndexer.index_document
ChunkMetadata(base_metadata, doc_id, i) ==
    Merge(base_metadata, [chunk_index |-> i, chunk_id |-> ChunkId(doc_id, i)])

(***************************************************************************)
(* KeywordIndexer.                                                         *)
(***************************************************************************)
\* BM25 parameters k1 = 1.5 and b = 0.75, as fractions
K1Num == 3

K1Den == 2

BNum == 3

BDen == 4

\* DfAfterChunk with the frequency raised by the occurrence count of the term
DfAfterChunkByCount(df, words) ==
    [t \in (DOMAIN df) \cup Range(words) |->
        IF t \in Range(words)
        THEN (IF t \in DOMAIN df THEN df[t] ELSE 0) + Counter(words)[t]
        ELSE df[t]]

\* document_frequencies after one chunk of index_document: one more for every
\* distinct word of the chunk
DfAfterChunk(df, words) ==
    [t \in (DOMAIN df) \cup Range(words) |->
        IF t \in Range(words)
        THEN (IF t \in DOMAIN df THEN df[t] ELSE 0) + 1
        ELSE df[t]]

\* IndexChunk with the new chunk put in front of the stored ones
IndexChunkInFront(st, chunk, i, doc_id, base_metadata) ==
    LET chunk_id == ChunkId(doc_id, i)
        words == PreprocessText(chunk)
        indexed_doc == [doc_id |-> chunk_id, content |-> chunk,
                        metadata |-> ChunkMetadata(base_metadata, doc_id, i),
                        chunk_index |-> i]
    IN  [documents |-> <<indexed_doc>> \o st.documents,
         term_frequencies |->
             Merge(st.term_frequencies, [c \in {chunk_id} |-> Counter(words)]),
         doc_lengths |-> Merge(st.doc_lengths, [c \in {chunk_id} |-> Len(words)]),
         document_frequencies |-> DfAfterChunk(st.document_frequencies, words)]

\* one pass of the loop of index_document over chunk number i (from 0):
\* st holds documents, term_frequencies, doc_lengths, document_frequencies
IndexChunk(st, chunk, i, doc_id, base_metadata) ==
    LET chunk_id == ChunkId(doc_id, i)
        chunk_metadata == ChunkMetadata(base_metadata, doc_id, i)
        words == PreprocessText(chunk)
        indexed_doc == [doc_id |-> chunk_id, content |-> chunk,
                        metadata |-> chunk_metadata, chunk_index |-> i]
    IN  [documents |-> Append(st.documents, indexed_doc),
         term_frequencies |->
             Merge(st.term_frequencies, [c \in {chunk_id} |-> Counter(words)]),
         doc_lengths |-> Merge(st.doc_lengths, [c \in {chunk_id} |-> Len(words)]),
         document_frequencies |-> DfAfterChunk(st.document_frequencies, words)]

RECURSIVE IndexChunks(_, _, _, _, _)
IndexChunks(st, chunks, i, doc_id, base_metadata) ==
    IF i >= Len(chunks) THEN st
    ELSE IndexChunks(IndexChunk(st, chunks[i + 1], i, doc_id, base_metadata),
                     chunks, i + 1, doc_id, base_metadata)

\* KeywordIndexer._update_avg_doc_length: left as it is when doc_lengths is empty
UpdateAvgDocLength(lengths, old) ==
    IF DOMAIN lengths # {}
    THEN [num |-> SumOver(lengths, DOMAIN lengths), den |-> Cardinality(DOMAIN lengths)]
    ELSE old

\* KeywordIndexer.index_document
KwIndexDocument ==
    /\ kind = "keyword"
    /\ next_uuid < MaxDocs
    /\ \E document \in KwCorpus, metadata \in Metadatas :
         LET doc_id == Uuid(next_uuid + 1)
             base_metadata == BaseMetadata(doc_id, metadata)
             chunks == ChunkText(document)
             st == IndexChunks([documents |-> documents,
                                term_frequencies |-> term_frequencies,
                                doc_lengths |-> doc_lengths,
                                document_frequencies |-> document_frequencies],
                               chunks, 0, doc_id, base_metadata)
         IN  /\ documents' = st.documents
             /\ term_frequencies' = st.term_frequencies
             /\ doc_lengths' = st.doc_lengths
             /\ document_frequencies' = st.document_frequencies
             /\ total_documents' = total_documents + Len(chunks)
             /\ avg_doc_length' = UpdateAvgDocLength(st.doc_lengths, avg_doc_length)
             /\ index_stats' = UpdateStats(index_stats, 1, Len(chunks))
             /\ ret' = Ret("index_document", FALSE,
                            [doc_id |-> doc_id, chunks_created |-> Len(chunks),
                             strategy |-> "keyword", success |-> TRUE],
                            document, metadata, 0, <<>>)
    /\ next_uuid' = next_uuid + 1
    /\ phase' = "indexed"
    /\ UNCHANGED <<ragVars, threadVars, kind, vecVars>>

\* math.log(k) for odd k, in millionths: LnOdd[(k + 1) \div 2]
LnOdd == <<0, 1098612, 1609438, 1945910, 2197225, 2397895, 2564949, 2708050,
           2833213, 2944439, 3044522, 3135494, 3218876, 3295837, 3367296,
           3433987, 3496508, 3555348, 3610918, 3663562, 3713572>>

\* idf = math.log((N - df + 0.5) / (df + 0.5)), in millionths
Idf(N, df) == LnOdd[N - df + 1] - LnOdd[df + 1]

\* idf * (numerator / denominator) of _calculate_bm25_score for one query term,
\* in millionths, with doc_length / avg_doc_length = doc_length * avg.den / avg.num
TermScore(tf, df, N, doc_length, avg) ==
    (Idf(N, df) * (tf * (K1Num + K1Den) * BDen * avg.num))
        \div (tf * K1Den * BDen * avg.num
                + K1Num * ((BDen - BNum) * avg.num + BNum * doc_length * avg.den))

\* the terms of the query that reach the BM25 formula for this chunk
ScoredPositions(query_terms, doc_id) ==
    {i \in DOMAIN query_terms :
        /\ query_terms[i] \in DOMAIN term_frequencies[doc_id]
        /\ query_terms[i] \in DOMAIN document_frequencies
        /\ document_frequencies[query_terms[i]] # 0}

\* CalculateBm25Score with every term of the query counted, held or not
CalculateBm25ScoreOfAnyTerm(query_terms, doc_id) == Len(query_terms)

\* KeywordIndexer._calculate_bm25_score, in millionths
CalculateBm25Score(query_terms, doc_id) ==
    IF doc_id \notin DOMAIN term_frequencies THEN 0
    ELSE LET doc_length == IF doc_id \in DOMAIN doc_lengths THEN doc_lengths[doc_id] ELSE 0
             pos == ScoredPositions(query_terms, doc_id)
             contrib == [i \in pos |->
                            TermScore(term_frequencies[doc_id][query_terms[i]],
                                      document_frequencies[query_terms[i]],
                                      total_documents, doc_length, avg_doc_length)]
         IN  SumOver(contrib, pos)

\* _calculate_bm25_score raises: math.log of a non-positive number, or a
\* division by avg_doc_length = 0
Bm25Raises(query_terms, doc_id) ==
    /\ doc_id \in DOMAIN term_frequencies
    /\ \E i \in ScoredPositions(query_terms, doc_id) :
          \/ total_documents < document_frequencies[query_terms[i]]
          \/ avg_doc_length.num = 0

\* PassesSessionFilter with the session check left out
PassesSessionFilterNoCheck(doc) == TRUE

\* search: the session filter on a chunk
PassesSessionFilter(doc) == Get(doc.metadata, "session_id") = session_id

\* PassesFilters with the filters left unread
PassesFiltersNoCheck(doc, filters) == TRUE

\* search: the caller's filters on a chunk
PassesFilters(doc, filters) ==
    \A key \in DOMAIN filters : Get(doc.metadata, key) = filters[key]

\* InsertByScore with a result put before the results of equal score
InsertByScoreUnstable(sorted, x) ==
    LET before == SelectSeq(sorted, LAMBDA r : r.score > x.score)
        after == SelectSeq(sorted, LAMBDA r : r.score <= x.score)
    IN  before \o <<x>> \o after

\* scores.sort(key=lambda x: x[1], reverse=True): stable, descending
RECURSIVE InsertByScore(_, _)
InsertByScore(sorted, x) ==
    IF sorted = <<>> THEN <<x>>
    ELSE IF Head(sorted).score >= x.score
         THEN <<Head(sorted)>> \o InsertByScore(Tail(sorted), x)
         ELSE <<x>> \o sorted

RECURSIVE SortByScore(_, _)
SortByScore(items, sorted) ==
    IF items = <<>> THEN sorted
    ELSE SortByScore(Tail(items), InsertByScore(sorted, Head(items)))

\* seq[:n]
Take(seq, n) == SubSeq(seq, 1, IF n < Len(seq) THEN n ELSE Len(seq))

SelectSeqIdx(seq, S) ==
    LET F[i \in 0..Len(seq)] ==
            IF i = 0 THEN <<>>
            ELSE IF i \in S THEN Append(F[i - 1], seq[i]) ELSE F[i - 1]
    IN  F[Len(seq)]

\* the chunks search scores: those that pass the session filter and the filters
Candidates(filters) ==
    {i \in DOMAIN documents :
        PassesSessionFilter(documents[i]) /\ PassesFilters(documents[i], filters)}

\* KeywordIndexer.search, when nothing raises
KwSearchResults(query, top_k, filters) ==
    IF documents = <<>> THEN <<>>
    ELSE LET query_terms == PreprocessText(query)
         IN  IF query_terms = <<>> THEN <<>>
             ELSE LET kept == {i \in Candidates(filters) :
                                  CalculateBm25Score(query_terms, documents[i].doc_id) > 0}
                      scores == [i \in DOMAIN documents |->
                                    IF i \in kept
                                    THEN [doc |-> documents[i],
                                          score |-> CalculateBm25Score(query_terms,
                                                        documents[i].doc_id)]
                                    ELSE [doc |-> documents[i], score |-> 0]]
                      ranked == Take(SortByScore(SelectSeqIdx(scores, kept), <<>>), top_k)
                  IN  [j \in DOMAIN ranked |->
                          [content |-> ranked[j].doc.content,
                           score |-> ranked[j].score,
                           metadata |-> ranked[j].doc.metadata,
                           doc_id |-> Get(ranked[j].doc.metadata, "doc_id"),
                           chunk_index |-> ranked[j].doc.chunk_index]]

KwSearchRaises(query, filters) ==
    /\ documents # <<>>
    /\ \E i \in Candidates(filters) :
          Bm25Raises(PreprocessText(query), documents[i].doc_id)

\* search: the chunk ids handed to _calculate_bm25_score, in order
KwScored(query, filters) ==
    IF documents = <<>> \/ PreprocessText(query) = <<>> THEN <<>>
    ELSE LET scored == SelectSeqIdx(documents, Candidates(filters))
         IN  [j \in DOMAIN scored |-> scored[j].doc_id]

\* KeywordIndexer.search; the calls of its record are the chunk ids it scored
KwSearch ==
    /\ kind = "keyword"
    /\ \E query \in KwQueries, top_k \in TopKs, filters \in Filters :
         ret' = IF KwSearchRaises(query, filters)
                THEN Ret("search", TRUE, <<>>, query, filters, top_k,
                         KwScored(query, filters))
                ELSE Ret("search", FALSE, KwSearchResults(query, top_k, filters),
                         query, filters, top_k, KwScored(query, filters))
    /\ UNCHANGED <<ragVars, threadVars, kind, documents, index_stats, kwVars, vecVars, next_uuid, phase>>

\* KeywordIndexer.get_index_stats
KwIndexStats ==
    [documents_indexed |-> index_stats.documents_indexed,
     chunks_created |-> index_stats.chunks_created,
     last_updated |-> index_stats.last_updated,
     total_chunks |-> Len(documents),
     unique_terms |-> Cardinality(DOMAIN document_frequencies),
     avg_doc_length |-> avg_doc_length]

KwGetIndexStats ==
    /\ kind = "keyword"
    /\ ret' = Ret("get_index_stats", FALSE, KwIndexStats, <<>>, EmptyDict, 0, <<>>)
    /\ UNCHANGED <<ragVars, threadVars, kind, documents, index_stats, kwVars, vecVars, next_uuid, phase>>

\* SurvivesDelete with every chunk kept
SurvivesDeleteAll(doc) == TRUE

\* delete_session_data: the chunks that are kept
SurvivesDelete(doc) == Get(doc.metadata, "session_id") # session_id

\* delete_session_data: document_frequencies recomputed from term_frequencies
RecomputeDf(tfs) ==
    LET terms == UNION {DOMAIN tfs[c] : c \in DOMAIN tfs}
    IN  [t \in terms |-> Cardinality({c \in DOMAIN tfs : t \in DOMAIN tfs[c]})]

\* KeywordIndexer.delete_session_data
KwDeleteSessionData ==
    /\ kind = "keyword"
    /\ LET session_docs == {documents[i].doc_id :
                               i \in {j \in DOMAIN documents : ~SurvivesDelete(documents[j])}}
           kept_docs == SelectSeqIdx(documents,
                            {j \in DOMAIN documents : SurvivesDelete(documents[j])})
           tfs == [c \in (DOMAIN term_frequencies) \ session_docs |-> term_frequencies[c]]
           lens == [c \in (DOMAIN doc_lengths) \ session_docs |-> doc_lengths[c]]
       IN  /\ documents' = kept_docs
           /\ term_frequencies' = tfs
           /\ doc_lengths' = lens
           /\ document_frequencies' = RecomputeDf(tfs)
           /\ total_documents' = Len(kept_docs)
           /\ avg_doc_length' = UpdateAvgDocLength(lens, avg_doc_length)
    /\ index_stats' = ZeroStats
    /\ ret' = Ret("delete_session_data", FALSE, TRUE, <<>>, EmptyDict, 0, <<>>)
    /\ phase' = "deleted"
    /\ UNCHANGED <<ragVars, threadVars, kind, vecVars, next_uuid>>

NoCall == Ret("init", FALSE, None, <<>>, EmptyDict, 0, <<>>)

\* settings.indexing_strategy when INDEXING_STRATEGY is not set
DefaultStrategy == <<"s", "e", "m", "a", "n", "t", "i", "c">>

\* the state after the constructor of an indexer
IndexerFresh ==
    /\ documents = <<>>
    /\ index_stats = ZeroStats
    /\ term_frequencies = EmptyDict
    /\ document_frequencies = EmptyDict
    /\ total_documents = 0
    /\ avg_doc_length = [num |-> 0, den |-> 1]
    /\ doc_lengths = EmptyDict
    /\ store = <<>>
    /\ full_text = <<>>
    /\ next_uuid = 0
    /\ phase = "fresh"
    /\ ret = NoCall
    /\ writer = WriterIdle
    /\ reader = ReaderIdle

\* an indexer used on its own: no RAGService holds a session
CommonInit ==
    /\ IndexerFresh
    /\ active_sessions = EmptyDict
    /\ indexing_strategy = DefaultStrategy

KwInit == kind = "keyword" /\ CommonInit

KwNext == KwIndexDocument \/ KwSearch \/ KwGetIndexStats \/ KwDeleteSessionData

\* a KeywordIndexer under any sequence of calls
KwSpec == KwInit /\ [][KwNext]_vars

(***************************************************************************)
(* The resume corpus of the two semantic indexers.  Each symbol of a text  *)
(* counts as one character; a word the regular expressions look for (the   *)
(* word email, the word skills, an e-mail address) is one symbol.          *)
(***************************************************************************)
\* "Jane Roe\nEmail: jane.roe@example.com"
DocContact == <<"Jane", "\n", "Email", " ", "jane@x.com">>

\* "SKILLS\nPython, SQL"
DocSkills == <<"SKILLS", "\n", "Python">>

VecCorpus == {DocContact, DocSkills}

VecMetadatas == {EmptyDict, [session_id |-> ForeignSession]}

VecQueries == { <<"email">>, <<"Python">> }

VecFilters == {EmptyDict, [session_id |-> ForeignSession]}

\* what the adapter does during one search: it answers every call, or it raises
\* in the plain vector search, or it raises in the contact search
AdapterOutcomes == {"ok", "vector_raises", "contact_raises"}

VecTopKs == {1, 8}

\* scores the adapter gives, in tenths: to a content that shares a word with
\* the query, and to one that does not
NearScore == 5

FarScore == 2

LowerSymbol(c) ==
    IF c = "Email" THEN "email"
    ELSE IF c = "SKILLS" THEN "skills"
    ELSE IF c = "Python" THEN "python"
    ELSE IF c = "Jane" THEN "jane"
    ELSE LowerChar(c)

\* str.lower() on the resume corpus
LowerText(text) == [i \in DOMAIN text |-> LowerSymbol(text[i])]

\* text[start:end], start and end counted from 0
Slice(text, start, end) ==
    LET e == IF end < Len(text) THEN end ELSE Len(text)
    IN  IF start >= e THEN <<>> ELSE SubSeq(text, start + 1, e)

Max(a, b) == IF a >= b THEN a ELSE b

Min(a, b) == IF a <= b THEN a ELSE b

\* str.find(term): the first index (from 0) where term occurs, -1 if none
Find(text, term) ==
    LET hits == {i \in 0..(Len(text) - Len(term)) :
                    Slice(text, i, i + Len(term)) = term}
    IN  IF hits = {} THEN -1 ELSE CHOOSE i \in hits : \A j \in hits : i <= j

\* str.count(term): non-overlapping occurrences, left to right
RECURSIVE Count(_, _)
Count(text, term) ==
    LET i == Find(text, term)
    IN  IF term = <<>> THEN Len(text) + 1
        ELSE IF i = -1 THEN 0
        ELSE 1 + Count(Slice(text, i + Len(term), Len(text)), term)

\* str.split(sep) for a one-symbol separator set: the pieces, empty ones too
\* (cur is what precedes text in the first piece)
SplitAt(text, seps, cur) ==
    LET cuts == {i \in DOMAIN text : text[i] \in seps}
        \* the k-th separator position; 0 before the first, Len + 1 after the last
        Cut(k) == IF k = 0 THEN 0
                  ELSE IF k > Cardinality(cuts) THEN Len(text) + 1
                  ELSE CHOOSE i \in cuts : Cardinality({j \in cuts : j < i}) = k - 1
    IN  [k \in 1..(Cardinality(cuts) + 1) |->
            (IF k = 1 THEN cur ELSE <<>>) \o SubSeq(text, Cut(k - 1) + 1, Cut(k) - 1)]

\* str.split(): the pieces between runs of whitespace, none empty
SplitWhitespace(text) ==
    SelectSeq(SplitAt(text, Whitespace, <<>>), LAMBDA piece : piece # <<>>)

RECURSIVE JoinWith(_, _)
JoinWith(pieces, sep) ==
    IF pieces = <<>> THEN <<>>
    ELSE IF Len(pieces) = 1 THEN pieces[1]
    ELSE pieces[1] \o <<sep>> \o JoinWith(Tail(pieces), sep)

\* RecursiveCharacterTextSplitter.split_text of the library, on texts whose
\* first separator is the newline: lines are merged while the chunk stays
\* within chunk_size, and chunks are stripped
RECURSIVE MergeLines(_, _, _)
MergeLines(lines, chunks, current) ==
    IF lines = <<>>
    THEN (IF Strip(current) # <<>> THEN Append(chunks, Strip(current)) ELSE chunks)
    ELSE IF current = <<>> THEN MergeLines(Tail(lines), chunks, Head(lines))
    ELSE IF Len(current) + 1 + Len(Head(lines)) <= ChunkSize
         THEN MergeLines(Tail(lines), chunks, current \o <<"\n">> \o Head(lines))
         ELSE MergeLines(Tail(lines),
                         IF Strip(current) # <<>> THEN Append(chunks, Strip(current))
                         ELSE chunks,
                         Head(lines))

SplitText(text) ==
    IF Len(text) <= ChunkSize
    THEN (IF Strip(text) # <<>> THEN <<Strip(text)>> ELSE <<>>)
    ELSE MergeLines(SplitAt(text, {"\n"}, <<>>), <<>>, <<>>)

(***************************************************************************)
(* The vector-store adapter.                                               *)
(***************************************************************************)
\* the entries of the store that match a metadata filter, in insertion order
Matching(filter) ==
    {i \in DOMAIN store :
        \A key \in DOMAIN filter : Get(store[i].metadata, key) = filter[key]}

\* the score of the embedding: a content that shares a word with the query is
\* nearer to it than one that does not
AdapterScore(query, content) ==
    IF Range(SplitWhitespace(LowerText(query)))
           \cap Range(SplitWhitespace(LowerText(content))) # {}
    THEN NearScore ELSE FarScore

\* similarity_search_with_score(query, k, filter): the k matching entries the
\* embedding puts nearest to the query, best first
SimilaritySearch(query, k, filter) ==
    LET hits == SelectSeqIdx(store, Matching(filter))
        scored == [j \in DOMAIN hits |->
                      [content |-> hits[j].content, metadata |-> hits[j].metadata,
                       score |-> AdapterScore(query, hits[j].content)]]
    IN  Take(SortByScore(scored, <<>>), k)

\* one call to the adapter, as recorded in ret.calls: the sub-search that made
\* it, the filter it was given, and the hits it returned unless it raised
AdapterCall(sub, filter, raised, results) ==
    [sub |-> sub, filter |-> filter, raised |-> raised, results |-> results]

(***************************************************************************)
(* SemanticIndexer.                                                        *)
(***************************************************************************)
\* the SearchResult made of an adapter hit, its score raised by boost
ToSearchResult(hit, boost) ==
    [content |-> hit.content, score |-> hit.score + boost, metadata |-> hit.metadata,
     doc_id |-> IF "doc_id" \in DOMAIN hit.metadata THEN hit.metadata["doc_id"] ELSE "",
     chunk_index |-> IF "chunk_index" \in DOMAIN hit.metadata
                     THEN hit.metadata["chunk_index"] ELSE 0]

\* the chunks of SemanticIndexer.index_document, with type and section unset
SemChunks(document) ==
    LET chunks == SplitText(document)
    IN  [i \in DOMAIN chunks |-> [content |-> chunks[i]]]

\* the loop of index_document: the metadata of chunk number i (from 0)
VecChunkMetadata(k, base_metadata, doc_id, i, chunk_info) ==
    IF k = "enhanced"
    THEN Merge(ChunkMetadata(base_metadata, doc_id, i),
               [chunk_type |-> chunk_info.type, chunk_section |-> chunk_info.section])
    ELSE ChunkMetadata(base_metadata, doc_id, i)

\* the filter search hands to the adapter
SearchFilter(filters) == Merge([session_id |-> session_id], filters)

\* SemSearchOutcome without the try/except: the adapter's error reaches the caller
SemSearchOutcomeNoCatch(query, top_k, filters, fails) ==
    Ret("search", fails, <<>>, query, filters, top_k,
        <<AdapterCall("vector", SearchFilter(filters), fails, <<>>)>>)

\* SemanticIndexer.search with its calls to the adapter: the adapter raises
\* when fails is TRUE
SemSearchOutcome(query, top_k, filters, fails) ==
    LET search_filter == SearchFilter(filters)
        results == SimilaritySearch(query, top_k, search_filter)
    IN  IF fails
        THEN Ret("search", FALSE, <<>>, query, filters, top_k,
                 <<AdapterCall("vector", search_filter, TRUE, <<>>)>>)
        ELSE Ret("search", FALSE,
                 [j \in DOMAIN results |-> ToSearchResult(results[j], 0)],
                 query, filters, top_k,
                 <<AdapterCall("vector", search_filter, FALSE, results)>>)

(***************************************************************************)
(* EnhancedSemanticIndexer.                                                *)
(***************************************************************************)
\* matches[0][:800] of _identify_resume_sections
SectionCap == 800

\* lines[:5] of _identify_resume_sections
HeaderLines == 5

\* characters kept on each side of a contact match
ContactWindow == 100

\* characters kept on each side of a keyword-fallback match
KeywordWindow == 200

\* result.content[:100] of _deduplicate_results
DedupPrefix == 100

\* len(all_results) < 3 of search
FallbackThreshold == 3

\* k=5 of _contact_search
ContactK == 5

\* score + 0.1 of _contact_search, in tenths
ContactBoost == 1

\* the words the section patterns capture, in the order of section_patterns
SectionWords == <<
    [name |-> "contact", words |-> {"email", "phone", "address", "linkedin", "github"}],
    [name |-> "experience", words |-> {"experience", "employment", "work history"}],
    [name |-> "education",
     words |-> {"education", "academic", "degree", "university", "college"}],
    [name |-> "skills",
     words |-> {"skills", "technical", "competencies", "technologies"}],
    [name |-> "summary", words |-> {"summary", "objective", "profile"}] >>

\* re.findall(pattern, text_lower)[0] for a section pattern: findall returns the
\* captured group, which is the first of the pattern's words found in the text
FirstCaptured(text_lower, words) ==
    LET hits == {i \in DOMAIN text_lower : text_lower[i] \in words}
    IN  IF hits = {} THEN <<>>
        ELSE <<text_lower[CHOOSE i \in hits : \A j \in hits : i <= j]>>

\* _identify_resume_sections: the sections in the order of the dict, the header
\* (always first) being the first five lines of the text
IdentifyResumeSections(text) ==
    LET text_lower == LowerText(text)
        header == [name |-> "header",
                   content |-> JoinWith(Take(SplitAt(text, {"\n"}, <<>>), HeaderLines),
                                        "\n")]
        found == SelectSeq(SectionWords,
                     LAMBDA p : FirstCaptured(text_lower, p.words) # <<>>)
    IN  <<header>> \o
        [j \in DOMAIN found |->
            [name |-> found[j].name,
             content |-> Take(FirstCaptured(text_lower, found[j].words), SectionCap)]]

\* the symbols the contact patterns match, in the order of patterns
ContactPatterns == <<
    [type |-> "email", matches |-> {"jane@x.com"}],
    [type |-> "linkedin", matches |-> {"linkedin.com/in/jane"}],
    [type |-> "github", matches |-> {"github.com/jane"}] >>

\* re.findall(pattern, text): the matches in the order they occur
FindAllMatches(text, matches) == SelectSeq(text, LAMBDA c : c \in matches)

\* the context chunk _extract_contact_chunks makes of one match
ContactContext(text, match) ==
    LET match_index == Find(LowerText(text), LowerText(<<match>>))
        start == Max(0, match_index - ContactWindow)
        end == Min(Len(text), match_index + 1 + ContactWindow)
    IN  Strip(Slice(text, start, end))

RECURSIVE ExtractContactChunksFrom(_, _)
ExtractContactChunksFrom(text, patterns) ==
    IF patterns = <<>> THEN <<>>
    ELSE LET found == FindAllMatches(text, Head(patterns).matches)
         IN  [j \in DOMAIN found |->
                 [content |-> ContactContext(text, found[j]), type |-> "contact",
                  section |-> Head(patterns).type]]
             \o ExtractContactChunksFrom(text, Tail(patterns))

\* EnhancedSemanticIndexer._extract_contact_chunks
ExtractContactChunks(text) == ExtractContactChunksFrom(text, ContactPatterns)

\* EnhancedSemanticIndexer._create_multi_strategy_chunks
CreateMultiStrategyChunks(document) ==
    LET sections == SelectSeq(IdentifyResumeSections(document),
                        LAMBDA sec : Strip(sec.content) # <<>>)
        regular_chunks == SplitText(document)
    IN  [j \in DOMAIN sections |->
            [content |-> sections[j].content, type |-> "section",
             section |-> sections[j].name]]
        \o ExtractContactChunks(document)
        \o [j \in DOMAIN regular_chunks |->
               [content |-> regular_chunks[j], type |-> "semantic", section |-> "general"]]

\* the words of a query that trigger the contact sub-search
ContactTerms == {"name", "email", "phone", "linkedin", "github"}

IsContactQuery(query) == \E i \in DOMAIN query : LowerSymbol(query[i]) \in ContactTerms

\* the filter _contact_search hands to the adapter
ContactFilter(filters) ==
    Merge([session_id |-> session_id, chunk_type |-> "contact"], filters)

\* the result _keyword_search makes of one query term found in full_text
KeywordSnippet(term) ==
    LET term_index == Find(LowerText(full_text), term)
        start == Max(0, term_index - KeywordWindow)
        end == Min(Len(full_text), term_index + Len(term) + KeywordWindow)
        snippet == Strip(Slice(full_text, start, end))
    IN  [content |-> snippet, score |-> Count(LowerText(snippet), term),
         metadata |-> [doc_id |-> "fallback", chunk_type |-> "keyword"],
         doc_id |-> "fallback", chunk_index |-> 0]

\* EnhancedSemanticIndexer._keyword_search
KeywordSearch(query, filters) ==
    IF full_text = <<>> THEN <<>>
    ELSE LET query_terms == SplitWhitespace(LowerText(query))
             found == SelectSeq(query_terms,
                          LAMBDA term : Find(LowerText(full_text), term) # -1)
         IN  [j \in DOMAIN found |-> KeywordSnippet(found[j])]

\* content_key of _deduplicate_results
ContentKey(result) == Strip(Take(result.content, DedupPrefix))

\* EnhancedSemanticIndexer._deduplicate_results
RECURSIVE DeduplicateFrom(_, _, _)
DeduplicateFrom(results, unique_results, seen_content) ==
    IF results = <<>> THEN unique_results
    ELSE IF ContentKey(Head(results)) \notin seen_content
         THEN DeduplicateFrom(Tail(results), Append(unique_results, Head(results)),
                              seen_content \cup {ContentKey(Head(results))})
         ELSE DeduplicateFrom(Tail(results), unique_results, seen_content)

DeduplicateResults(results) == DeduplicateFrom(results, <<>>, {})

\* search: what reaches the caller when _vector_search raises
OnVectorSearchError(query, filters) == <<>>

\* EnhancedSemanticIndexer.search with its calls to the adapter: the adapter
\* raises in the vector sub-search when failV, in the contact one when failC
EnhSearchOutcome(query, top_k, filters, failV, failC) ==
    LET vector_filter == SearchFilter(filters)
        vector_hits == SimilaritySearch(query, top_k, vector_filter)
        vector_results == [j \in DOMAIN vector_hits |-> ToSearchResult(vector_hits[j], 0)]
        contact_filter == ContactFilter(filters)
        contact_hits == SimilaritySearch(query, ContactK, contact_filter)
        contact_results ==
            IF ~IsContactQuery(query) \/ failC THEN <<>>
            ELSE [j \in DOMAIN contact_hits |->
                     ToSearchResult(contact_hits[j], ContactBoost)]
        contact_calls ==
            IF ~IsContactQuery(query) THEN <<>>
            ELSE IF failC THEN <<AdapterCall("contact", contact_filter, TRUE, <<>>)>>
            ELSE <<AdapterCall("contact", contact_filter, FALSE, contact_hits)>>
        two == vector_results \o contact_results
        all_results ==
            IF Len(two) < FallbackThreshold THEN two \o KeywordSearch(query, filters)
            ELSE two
        unique_results == DeduplicateResults(all_results)
    IN  IF failV
        THEN Ret("search", FALSE, OnVectorSearchError(query, filters), query, filters,
                 top_k, <<AdapterCall("vector", vector_filter, TRUE, <<>>)>>)
        ELSE Ret("search", FALSE, Take(SortByScore(unique_results, <<>>), top_k),
                 query, filters, top_k,
                 <<AdapterCall("vector", vector_filter, FALSE, vector_hits)>>
                     \o contact_calls)

(***************************************************************************)
(* The calls on a SemanticIndexer or an EnhancedSemanticIndexer.           *)
(***************************************************************************)
\* index_document of both classes; when add_fails, add_texts of the adapter
\* raises, after the chunks were appended to self.documents and before
\* update_stats
VecIndex(add_fails) ==
    /\ kind \in {"semantic", "enhanced"}
    /\ next_uuid < MaxDocs
    /\ \E document \in VecCorpus, metadata \in VecMetadatas :
         LET doc_id == Uuid(next_uuid + 1)
             base_metadata == BaseMetadata(doc_id, metadata)
             chunks == IF kind = "enhanced" THEN CreateMultiStrategyChunks(document)
                       ELSE SemChunks(document)
             metadatas == [j \in DOMAIN chunks |->
                              VecChunkMetadata(kind, base_metadata, doc_id, j - 1,
                                               chunks[j])]
         IN  /\ full_text' = IF kind = "enhanced" THEN document ELSE full_text
             /\ documents' = documents \o
                    [j \in DOMAIN chunks |->
                        [doc_id |-> doc_id, content |-> chunks[j].content,
                         metadata |-> metadatas[j], chunk_index |-> j - 1]]
             /\ IF add_fails
                THEN /\ UNCHANGED <<store, index_stats>>
                     /\ ret' = Ret("index_document", TRUE, None, document, metadata,
                                   0, <<>>)
                ELSE /\ store' = store \o
                            [j \in DOMAIN chunks |->
                                [content |-> chunks[j].content,
                                 metadata |-> metadatas[j]]]
                     /\ index_stats' = UpdateStats(index_stats, 1, Len(chunks))
                     /\ ret' = Ret("index_document", FALSE,
                                   [doc_id |-> doc_id, chunks_created |-> Len(chunks),
                                    strategy |-> IF kind = "enhanced"
                                                 THEN "enhanced_semantic"
                                                 ELSE "semantic",
                                    success |-> TRUE],
                                   document, metadata, 0, <<>>)
    /\ next_uuid' = next_uuid + 1
    /\ phase' = "indexed"
    /\ UNCHANGED <<ragVars, threadVars, kind, kwVars>>

\* index_document with an adapter that takes the texts
VecIndexDocument == VecIndex(FALSE)

\* SemanticIndexer.search
SemSearch ==
    /\ kind = "semantic"
    /\ \E query \in VecQueries, top_k \in VecTopKs, filters \in VecFilters,
          outcome \in AdapterOutcomes \ {"contact_raises"} :
         ret' = SemSearchOutcome(query, top_k, filters, outcome = "vector_raises")
    /\ UNCHANGED <<ragVars, threadVars, kind, documents, index_stats, kwVars, vecVars, next_uuid, phase>>

\* EnhancedSemanticIndexer.search
EnhSearch ==
    /\ kind = "enhanced"
    /\ \E query \in VecQueries, top_k \in VecTopKs, filters \in VecFilters,
          outcome \in AdapterOutcomes :
         ret' = EnhSearchOutcome(query, top_k, filters, outcome = "vector_raises",
                                 outcome = "contact_raises")
    /\ UNCHANGED <<ragVars, threadVars, kind, documents, index_stats, kwVars, vecVars, next_uuid, phase>>

\* get_index_stats of both classes
VecIndexStats ==
    [documents_indexed |-> index_stats.documents_indexed,
     chunks_created |-> index_stats.chunks_created,
     last_updated |-> index_stats.last_updated,
     total_chunks |-> Len(documents)]

VecGetIndexStats ==
    /\ kind \in {"semantic", "enhanced"}
    /\ ret' = Ret("get_index_stats", FALSE, VecIndexStats, <<>>, EmptyDict, 0, <<>>)
    /\ UNCHANGED <<ragVars, threadVars, kind, documents, index_stats, kwVars, vecVars, next_uuid, phase>>

\* delete_session_data of both classes: the vector store is not touched
VecDeleteSessionData ==
    /\ kind \in {"semantic", "enhanced"}
    /\ documents' = SelectSeqIdx(documents,
                        {j \in DOMAIN documents : SurvivesDelete(documents[j])})
    /\ full_text' = IF kind = "enhanced" THEN <<>> ELSE full_text
    /\ index_stats' = ZeroStats
    /\ ret' = Ret("delete_session_data", FALSE, TRUE, <<>>, EmptyDict, 0, <<>>)
    /\ phase' = "deleted"
    /\ UNCHANGED <<ragVars, threadVars, kind, store, kwVars, next_uuid>>

VecInit == kind \in {"semantic", "enhanced"} /\ CommonInit

VecNext ==
    VecIndexDocument \/ SemSearch \/ EnhSearch \/ VecGetIndexStats \/ VecDeleteSessionData

\* a SemanticIndexer or an EnhancedSemanticIndexer under any sequence of calls
VecSpec == VecInit /\ [][VecNext]_vars

\* an indexer of any of the three classes
Init == kind \in {"keyword", "semantic", "enhanced"} /\ CommonInit

Next == KwNext \/ VecNext

Spec == Init /\ [][Next]_vars

(***************************************************************************)
(* IndexingFactory.  A strategy name is a text of one-letter characters.   *)
(***************************************************************************)
\* IndexingFactory._indexer_classes, in the order of the dict; the classes
\* are named as the variable kind names them
IndexerClasses == <<
    [name |-> <<"s", "e", "m", "a", "n", "t", "i", "c">>, class |-> "enhanced"],
    [name |-> <<"b", "a", "s", "i", "c", "_", "s", "e", "m", "a", "n", "t", "i", "c">>,
     class |-> "semantic"],
    [name |-> <<"k", "e", "y", "w", "o", "r", "d">>, class |-> "keyword"] >>

\* strategy names a caller passes to create_indexer
StrategyNames == {
    <<"k", "e", "y", "w", "o", "r", "d">>,
    <<"K", "E", "Y", "W", "O", "R", "D">>,
    <<"K", "e", "y", "w", "o", "r", "d">>,
    <<"s", "e", "m", "a", "n", "t", "i", "c">>,
    <<"S", "e", "m", "a", "n", "t", "i", "c">>,
    <<"b", "a", "s", "i", "c", "_", "s", "e", "m", "a", "n", "t", "i", "c">>,
    <<"B", "A", "S", "I", "C", "_", "S", "E", "M", "A", "N", "T", "I", "C">>,
    <<"h", "y", "b", "r", "i", "d">>,
    <<"H", "y", "b", "r", "i", "d">>,
    <<"k", "e", "y">>,
    <<>> }

\* NormalizeStrategy with the name left as the caller wrote it
NormalizeStrategyAsGiven(strategy) == strategy

\* create_indexer: strategy = strategy.lower()
NormalizeStrategy(strategy) == Lower(strategy)

\* strategy in cls._indexer_classes
IsRegistered(strategy) ==
    \E i \in DOMAIN IndexerClasses : IndexerClasses[i].name = strategy

\* cls._indexer_classes[strategy]
IndexerClass(strategy) ==
    IndexerClasses[CHOOSE i \in DOMAIN IndexerClasses :
                      IndexerClasses[i].name = strategy].class

\* the message of the ValueError: the fixed parts are one symbol each
UnknownStrategyMessage(strategy) ==
    LET available == JoinWith([i \in DOMAIN IndexerClasses |-> IndexerClasses[i].name],
                              ", ")
    IN  <<"Unknown indexing strategy: ">> \o strategy
            \o <<". Available: ">> \o available

\* IndexingFactory.create_indexer(strategy, session_id): kind is "none" until
\* an indexer is constructed
CreateIndexer ==
    /\ kind = "none"
    /\ \E given \in StrategyNames :
         LET strategy == NormalizeStrategy(given)
         IN  IF ~IsRegistered(strategy)
             THEN /\ kind' = kind
                  /\ ret' = Ret("create_indexer", TRUE, UnknownStrategyMessage(strategy),
                                given, EmptyDict, 0, <<>>)
             ELSE /\ kind' = IndexerClass(strategy)
                  /\ ret' = Ret("create_indexer", FALSE, IndexerClass(strategy),
                                given, EmptyDict, 0, <<>>)
    /\ UNCHANGED <<ragVars, threadVars, documents, index_stats, kwVars, vecVars, next_uuid, phase>>

FactoryInit == kind = "none" /\ CommonInit

FactoryNext == CreateIndexer \/ Next

\* an indexer made by the factory, then under any sequence of calls
FactorySpec == FactoryInit /\ [][FactoryNext]_vars

(***************************************************************************)
(* EnhancedSemanticIndexer._deduplicate_results on candidate lists of its  *)
(* own: the list is drawn first, then the method is applied to it.         *)
(***************************************************************************)
\* the longest candidate list
MaxResults == 3

\* a content of DedupPrefix characters c
Filler(c) == [i \in 1..DedupPrefix |-> c]

\* contents of candidates: short ones, with and without a leading blank, and
\* two that differ only after the first DedupPrefix characters
DedupContents == {
    <<"x">>,
    <<" ", "x">>,
    <<"y">>,
    Filler("p") \o <<"a">>,
    Filler("p") \o <<"b">> }

\* a SearchResult; chunk_index is its place in the candidate list
Candidate(content, place) ==
    [content |-> content, score |-> 1, metadata |-> EmptyDict, doc_id |-> "d1",
     chunk_index |-> place]

\* the candidate lists given to _deduplicate_results
DedupInputs ==
    UNION {{[j \in 1..n |-> Candidate(contents[j], j)] :
               contents \in [1..n -> DedupContents]} : n \in 0..MaxResults}

DedupInit == kind = "enhanced" /\ CommonInit

\* the caller draws a candidate list
DrawResults ==
    /\ kind = "enhanced"
    /\ ret.op = "init"
    /\ \E results \in DedupInputs :
         ret' = Ret("results", FALSE, None, results, EmptyDict, 0, <<>>)
    /\ UNCHANGED <<ragVars, threadVars, kind, documents, index_stats, kwVars, vecVars, next_uuid, phase>>

\* _deduplicate_results(results) on the list drawn
Deduplicate ==
    /\ kind = "enhanced"
    /\ ret.op = "results"
    /\ ret' = Ret("_deduplicate_results", FALSE, DeduplicateResults(ret.query),
                  ret.query, EmptyDict, 0, <<>>)
    /\ UNCHANGED <<ragVars, threadVars, kind, documents, index_stats, kwVars, vecVars, next_uuid, phase>>

DedupNext == DrawResults \/ Deduplicate

DedupSpec == DedupInit /\ [][DedupNext]_vars

(***************************************************************************)
(* One thread in KeywordIndexer.index_document and one in search, on the   *)
(* same indexer, without a lock.  The writer moves one statement of        *)
(* index_document at a time; the reader moves one pass of the loop of      *)
(* search at a time.  Calls made before either thread starts are whole.    *)
(***************************************************************************)
\* top_k of search when the caller gives none
DefaultTopK == 5

\* the SearchResult list search builds from its sorted (doc, score) pairs
KwResultsOf(scores) ==
    LET ranked == Take(SortByScore(scores, <<>>), DefaultTopK)
    IN  [j \in DOMAIN ranked |->
            [content |-> ranked[j].doc.content,
             score |-> ranked[j].score,
             metadata |-> ranked[j].doc.metadata,
             doc_id |-> Get(ranked[j].doc.metadata, "doc_id"),
             chunk_index |-> ranked[j].doc.chunk_index]]

\* an index_document call that ran alone, before the two threads
IndexBeforeThreads ==
    /\ writer.pc = "idle"
    /\ reader.pc = "idle"
    /\ KwIndexDocument

\* index_document up to the loop: doc_id, base_metadata, chunks; the writer
\* notes what search(query) returns on the state it starts from
WriterBegin ==
    /\ kind = "keyword"
    /\ writer.pc = "idle"
    /\ next_uuid < MaxDocs
    /\ \E document \in KwCorpus, metadata \in Metadatas :
         writer' = [pc |-> "append",
                    doc_id |-> Uuid(next_uuid + 1),
                    base_metadata |-> BaseMetadata(Uuid(next_uuid + 1), metadata),
                    chunks |-> ChunkText(document),
                    i |-> 0,
                    pending |-> {},
                    before |-> [q \in KwQueries |->
                                   KwSearchResults(q, DefaultTopK, EmptyDict)]]
    /\ next_uuid' = next_uuid + 1
    /\ UNCHANGED <<ragVars, kind, documents, index_stats, kwVars, vecVars, phase, ret, reader>>

\* what the pass of the loop over chunk writer.i writes
WriterChunk ==
    IndexChunk([documents |-> documents, term_frequencies |-> term_frequencies,
                doc_lengths |-> doc_lengths,
                document_frequencies |-> document_frequencies],
               writer.chunks[writer.i + 1], writer.i, writer.doc_id,
               writer.base_metadata)

\* self.documents.append(indexed_doc)
WriterAppend ==
    /\ writer.pc = "append"
    /\ documents' = WriterChunk.documents
    /\ writer' = [writer EXCEPT !.pc = "term_frequencies"]
    /\ UNCHANGED <<ragVars, kind, index_stats, kwVars, vecVars, next_uuid, phase, ret, reader>>

\* self.term_frequencies[chunk_id] = dict(word_counts)
WriterTermFrequencies ==
    /\ writer.pc = "term_frequencies"
    /\ term_frequencies' = WriterChunk.term_frequencies
    /\ writer' = [writer EXCEPT !.pc = "doc_lengths"]
    /\ UNCHANGED <<ragVars, kind, documents, index_stats, document_frequencies, total_documents,
                   avg_doc_length, doc_lengths, vecVars, next_uuid, phase, ret, reader>>

\* the writer after the last word of chunk writer.i: the next chunk, or the
\* statements after the loop
AfterChunk(w) ==
    IF w.i + 1 < Len(w.chunks)
    THEN [w EXCEPT !.pc = "append", !.i = w.i + 1, !.pending = {}]
    ELSE [w EXCEPT !.pc = "total_documents", !.pending = {}]

\* self.doc_lengths[chunk_id] = len(words); unique_words = set(words)
WriterDocLength ==
    /\ writer.pc = "doc_lengths"
    /\ doc_lengths' = WriterChunk.doc_lengths
    /\ LET unique_words == Range(PreprocessText(writer.chunks[writer.i + 1]))
       IN  writer' = IF unique_words = {} THEN AfterChunk(writer)
                     ELSE [writer EXCEPT !.pc = "document_frequencies",
                                         !.pending = unique_words]
    /\ UNCHANGED <<ragVars, kind, documents, index_stats, term_frequencies, document_frequencies,
                   total_documents, avg_doc_length, vecVars, next_uuid, phase, ret,
                   reader>>

\* one pass of "for word in unique_words": the set is read in any order
WriterDocumentFrequency ==
    /\ writer.pc = "document_frequencies"
    /\ \E word \in writer.pending :
         /\ document_frequencies' = DfAfterChunk(document_frequencies, <<word>>)
         /\ writer' = IF writer.pending = {word} THEN AfterChunk(writer)
                       ELSE [writer EXCEPT !.pending = writer.pending \ {word}]
    /\ UNCHANGED <<ragVars, kind, documents, index_stats, term_frequencies, total_documents,
                   avg_doc_length, doc_lengths, vecVars, next_uuid, phase, ret, reader>>

\* self.total_documents += len(chunks)
WriterTotalDocuments ==
    /\ writer.pc = "total_documents"
    /\ total_documents' = total_documents + Len(writer.chunks)
    /\ writer' = [writer EXCEPT !.pc = "avg_doc_length"]
    /\ UNCHANGED <<ragVars, kind, documents, index_stats, term_frequencies, document_frequencies,
                   avg_doc_length, doc_lengths, vecVars, next_uuid, phase, ret, reader>>

\* self._update_avg_doc_length()
WriterAvgDocLength ==
    /\ writer.pc = "avg_doc_length"
    /\ avg_doc_length' = UpdateAvgDocLength(doc_lengths, avg_doc_length)
    /\ writer' = [writer EXCEPT !.pc = "update_stats"]
    /\ UNCHANGED <<ragVars, kind, documents, index_stats, term_frequencies, document_frequencies,
                   total_documents, doc_lengths, vecVars, next_uuid, phase, ret, reader>>

\* self.update_stats(...), and the return
WriterUpdateStats ==
    /\ writer.pc = "update_stats"
    /\ index_stats' = UpdateStats(index_stats, 1, Len(writer.chunks))
    /\ phase' = "indexed"
    /\ writer' = [writer EXCEPT !.pc = "done"]
    /\ UNCHANGED <<ragVars, kind, documents, kwVars, vecVars, next_uuid, ret, reader>>

\* search(query) up to its loop: the two early returns
ReaderBegin ==
    /\ kind = "keyword"
    /\ reader.pc = "idle"
    /\ \E query \in KwQueries :
         reader' = IF documents = <<>> \/ PreprocessText(query) = <<>>
                   THEN [ReaderIdle EXCEPT !.pc = "done", !.query = query]
                   ELSE [ReaderIdle EXCEPT !.pc = "loop", !.query = query, !.pos = 1]
    /\ UNCHANGED <<ragVars, kind, documents, index_stats, kwVars, vecVars, next_uuid, phase, ret,
                   writer>>

\* one pass of "for doc in self.documents": the list is read as it is now,
\* and so are the term statistics _calculate_bm25_score reads
ReaderScore ==
    /\ reader.pc = "loop"
    /\ reader.pos <= Len(documents)
    /\ LET doc == documents[reader.pos]
           query_terms == PreprocessText(reader.query)
       IN  reader' =
               IF ~PassesSessionFilter(doc)
               THEN [reader EXCEPT !.pos = reader.pos + 1]
               ELSE IF Bm25Raises(query_terms, doc.doc_id)
               THEN [reader EXCEPT !.pc = "done", !.raised = TRUE]
               ELSE IF CalculateBm25Score(query_terms, doc.doc_id) > 0
               THEN [reader EXCEPT
                        !.pos = reader.pos + 1,
                        !.scores = Append(reader.scores,
                                      [doc |-> doc,
                                       score |-> CalculateBm25Score(query_terms,
                                                                    doc.doc_id)])]
               ELSE [reader EXCEPT !.pos = reader.pos + 1]
    /\ UNCHANGED <<ragVars, kind, documents, index_stats, kwVars, vecVars, next_uuid, phase, ret,
                   writer>>

\* the loop is over: sort, slice, build the results, return
ReaderReturn ==
    /\ reader.pc = "loop"
    /\ reader.pos > Len(documents)
    /\ reader' = [reader EXCEPT !.pc = "done", !.value = KwResultsOf(reader.scores)]
    /\ UNCHANGED <<ragVars, kind, documents, index_stats, kwVars, vecVars, next_uuid, phase, ret,
                   writer>>

ConcNext ==
    \/ IndexBeforeThreads
    \/ WriterBegin \/ WriterAppend \/ WriterTermFrequencies \/ WriterDocLength
    \/ WriterDocumentFrequency \/ WriterTotalDocuments \/ WriterAvgDocLength
    \/ WriterUpdateStats
    \/ ReaderBegin \/ ReaderScore \/ ReaderReturn

\* a KeywordIndexer with one ingesting thread and one searching thread
ConcSpec == KwInit /\ [][ConcNext]_vars

(***************************************************************************)
(* Properties of KeywordIndexer.                                           *)
(***************************************************************************)
OwnChunk(doc) == Get(doc.metadata, "session_id") = session_id

\* the chunks whose tokens include term t
ChunksWith(t) ==
    {c \in DOMAIN term_frequencies :
        t \in DOMAIN term_frequencies[c] /\ term_frequencies[c][t] > 0}

\* C3: after delete_session_data returned True the KeywordIndexer holds no
\* chunk at all: documents, term_frequencies, doc_lengths and
\* document_frequencies are empty, total_documents is 0 and get_index_stats
\* reports total_chunks = 0, documents_indexed = 0, chunks_created = 0.
C3_DeleteLeavesNoChunk ==
    (kind = "keyword" /\ ret.op = "delete_session_data" /\ ret.value = TRUE) =>
        /\ documents = <<>>
        /\ DOMAIN term_frequencies = {}
        /\ DOMAIN doc_lengths = {}
        /\ DOMAIN document_frequencies = {}
        /\ total_documents = 0
        /\ KwIndexStats.total_chunks = 0
        /\ KwIndexStats.documents_indexed = 0
        /\ KwIndexStats.chunks_created = 0

\* C5: for every term t, document_frequencies[t] is the number of chunk ids c
\* with term_frequencies[c][t] > 0, and no term with count 0 is a key.
C5_DocumentFrequencyInvariant ==
    /\ \A t \in DOMAIN document_frequencies :
          /\ document_frequencies[t] = Cardinality(ChunksWith(t))
          /\ document_frequencies[t] > 0
    /\ \A c \in DOMAIN term_frequencies :
          \A t \in DOMAIN term_frequencies[c] :
              term_frequencies[c][t] > 0 => t \in DOMAIN document_frequencies

\* after an ingest, a term occurs twice in one chunk and in two chunks
C5_Witness ==
    /\ kind = "keyword"
    /\ ret.op = "index_document"
    /\ \E c \in DOMAIN term_frequencies :
          \E t \in DOMAIN term_frequencies[c] :
              term_frequencies[c][t] = 2 /\ document_frequencies[t] = 2

\* the position of the chunk with this content in a result list, 0 if absent
PositionOf(results, content) ==
    IF \E j \in DOMAIN results : results[j].content = content
    THEN CHOOSE j \in DOMAIN results :
            /\ results[j].content = content
            /\ \A k \in 1..(j - 1) : results[k].content # content
    ELSE 0

\* C6: with exactly two chunks held, of which exactly one contains the term
\* of the query "Python", search ranks the chunk containing it strictly above
\* the other: it is in the result list, and the other is absent or after it.
C6_TermChunkRankedFirst ==
    (/\ kind = "keyword"
     /\ ret.op = "search" /\ ~ret.raised
     /\ ret.query = <<"P">> /\ ret.filters = EmptyDict
     /\ Len(documents) = 2
     /\ \A i \in DOMAIN documents : OwnChunk(documents[i])
     /\ Cardinality(ChunksWith(<<"p">>)) = 1)
    => LET with == CHOOSE i \in DOMAIN documents :
                       documents[i].doc_id \in ChunksWith(<<"p">>)
           other == CHOOSE i \in DOMAIN documents :
                       documents[i].doc_id \notin ChunksWith(<<"p">>)
           pw == PositionOf(ret.value, documents[with].content)
           po == PositionOf(ret.value, documents[other].content)
       IN  pw >= 1 /\ (po = 0 \/ po > pw)

\* C10: every SearchResult of KeywordIndexer.search comes from a held chunk
\* whose metadata session_id is the indexer's own session_id.
C10_ResultsOfOwnSession ==
    (kind = "keyword" /\ ret.op = "search") =>
        \A j \in DOMAIN ret.value :
            /\ Get(ret.value[j].metadata, "session_id") = session_id
            /\ \E i \in DOMAIN documents :
                  /\ documents[i].content = ret.value[j].content
                  /\ documents[i].metadata = ret.value[j].metadata
                  /\ OwnChunk(documents[i])

\* a search left out a chunk of a foreign session that passes the caller's
\* filters and has a positive score
C10_Witness ==
    /\ kind = "keyword"
    /\ ret.op = "search"
    /\ \E i \in DOMAIN documents :
          /\ ~OwnChunk(documents[i])
          /\ PassesFilters(documents[i], ret.filters)
          /\ CalculateBm25Score(PreprocessText(ret.query), documents[i].doc_id) > 0

(***************************************************************************)
(* Properties of the indexers that use the vector store.                   *)
(***************************************************************************)
IsVec == kind \in {"semantic", "enhanced"}

\* C1: once delete_session_data returned True, every later search on a
\* SemanticIndexer or an EnhancedSemanticIndexer returns the empty list.
C1_SearchEmptyAfterDelete ==
    (IsVec /\ phase = "deleted" /\ ret.op = "search") => ret.value = <<>>

\* C2: the filter handed to similarity_search_with_score always has
\* session_id equal to the indexer's own, whatever filters the caller gave.
C2_FilterKeepsOwnSession ==
    (IsVec /\ ret.op = "search") =>
        \A i \in DOMAIN ret.calls :
            Get(ret.calls[i].filter, "session_id") = session_id

\* C4: every chunk an indexer stores, in its documents list and in what it
\* handed to the adapter, has metadata session_id equal to the indexer's own.
C4_SessionOwnership ==
    /\ \A i \in DOMAIN documents : OwnChunk(documents[i])
    /\ \A i \in DOMAIN store : OwnChunk(store[i])

\* the number of results the sub-searches of a search produced before fusion
CandidateCount(r) ==
    LET hits == [i \in DOMAIN r.calls |-> Len(r.calls[i].results)]
    IN  SumOver(hits, DOMAIN hits) + Len(KeywordSearch(r.query, r.filters))

\* C7: for a query with a contact keyword, every chunk tagged contact that
\* the contact sub-search returned is in the fused output with its boosted
\* score (top_k being large enough to keep every candidate).
C7_ContactHitSurfacesBoosted ==
    (/\ kind = "enhanced" /\ ret.op = "search"
     /\ IsContactQuery(ret.query)
     /\ \A i \in DOMAIN ret.calls : ~ret.calls[i].raised
     /\ ret.top_k >= CandidateCount(ret))
    => \A i \in DOMAIN ret.calls :
           ret.calls[i].sub = "contact" =>
               \A h \in DOMAIN ret.calls[i].results :
                   LET hit == ret.calls[i].results[h]
                   IN  Get(hit.metadata, "chunk_type") = "contact" =>
                           \E j \in DOMAIN ret.value :
                               /\ ret.value[j].content = hit.content
                               /\ ret.value[j].score = hit.score + ContactBoost

\* C8: when the plain vector search raises, the query has no contact keyword
\* and full_text contains a term of the query, the keyword-fallback result is
\* still returned.
C8_FallbackSurvivesVectorFailure ==
    (/\ kind = "enhanced" /\ ret.op = "search"
     /\ ret.calls[1].sub = "vector" /\ ret.calls[1].raised
     /\ ~IsContactQuery(ret.query)
     /\ KeywordSearch(ret.query, ret.filters) # <<>>)
    => \E j \in DOMAIN ret.value : ret.value[j].doc_id = "fallback"

\* C9: search of SemanticIndexer and of EnhancedSemanticIndexer never raises;
\* when the adapter raises, SemanticIndexer returns the empty list; the
\* adapter is called at most once per sub-search; the indexer's state is
\* unchanged.
C9_SearchNeverRaises ==
    [][(IsVec /\ ret'.op = "search") =>
          /\ ~ret'.raised
          /\ (kind = "semantic" /\ \E i \in DOMAIN ret'.calls : ret'.calls[i].raised)
                => ret'.value = <<>>
          /\ \A i, j \in DOMAIN ret'.calls :
                ret'.calls[i].sub = ret'.calls[j].sub => i = j
          /\ UNCHANGED <<documents, index_stats, store, full_text, phase>>]_vars

\* a search during which the adapter raised, on an indexer that holds chunks
C9_Witness ==
    /\ IsVec /\ ret.op = "search"
    /\ store # <<>>
    /\ \E i \in DOMAIN ret.calls : ret.calls[i].raised

(***************************************************************************)
(* Properties of KeywordIndexer.search.                                    *)
(***************************************************************************)
\* C11: on a KeywordIndexer, once delete_session_data returned True, every
\* search before the next index_document returns the empty list and does not
\* raise, for every query and filters.
C11_KwSearchEmptyAfterDelete ==
    (kind = "keyword" /\ phase = "deleted" /\ ret.op = "search") =>
        (~ret.raised /\ ret.value = <<>>)

\* a search after a delete, on an indexer that had ingested a chunk with a
\* term of the query, with filters the chunk passes
C11_Witness ==
    /\ kind = "keyword" /\ phase = "deleted" /\ ret.op = "search"
    /\ \E i \in DOMAIN documents :
          /\ PassesFilters(documents[i], ret.filters)
          /\ \E t \in Range(PreprocessText(ret.query)) :
                t \in DOMAIN term_frequencies[documents[i].doc_id]

\* the place in the ingestion order of the chunk a result was made from
IngestPosition(result) ==
    CHOOSE i \in DOMAIN documents : documents[i].doc_id = result.metadata.chunk_id

\* C14: for top_k > 0 the list KeywordIndexer.search returns has at most
\* top_k entries, every score is strictly positive, scores are in
\* non-increasing order, and entries of equal score are in ingestion order.
C14_RankedTopK ==
    (kind = "keyword" /\ ret.op = "search" /\ ~ret.raised /\ ret.top_k > 0) =>
        /\ Len(ret.value) <= ret.top_k
        /\ \A j \in DOMAIN ret.value : ret.value[j].score > 0
        /\ \A j, k \in DOMAIN ret.value :
              j < k => /\ ret.value[j].score >= ret.value[k].score
                       /\ ret.value[j].score = ret.value[k].score
                            => IngestPosition(ret.value[j]) < IngestPosition(ret.value[k])

\* a search returned two results of equal score
C14_Witness ==
    /\ kind = "keyword" /\ ret.op = "search"
    /\ Len(ret.value) >= 2
    /\ ret.value[1].score = ret.value[2].score

\* C15: every result of KeywordIndexer.search comes from a chunk whose
\* metadata equals the caller's filters on every key of the filters, and no
\* chunk that fails a filter is handed to _calculate_bm25_score.
C15_FiltersRespected ==
    (kind = "keyword" /\ ret.op = "search") =>
        /\ \A j \in DOMAIN ret.value :
              \A key \in DOMAIN ret.filters :
                  Get(ret.value[j].metadata, key) = ret.filters[key]
        /\ \A c \in DOMAIN ret.calls :
              \A i \in DOMAIN documents :
                  documents[i].doc_id = ret.calls[c] =>
                      \A key \in DOMAIN ret.filters :
                          Get(documents[i].metadata, key) = ret.filters[key]

\* a search with filters left out a chunk of its own session that fails the
\* filters and has a positive score for the query
C15_Witness ==
    /\ kind = "keyword" /\ ret.op = "search"
    /\ ret.filters # EmptyDict
    /\ \E i \in DOMAIN documents :
          /\ OwnChunk(documents[i])
          /\ \E key \in DOMAIN ret.filters :
                Get(documents[i].metadata, key) # ret.filters[key]
          /\ CalculateBm25Score(PreprocessText(ret.query), documents[i].doc_id) > 0

\* the terms of a query that some held chunk contains
HeldTerms(query) ==
    SelectSeq(PreprocessText(query), LAMBDA t : t \in DOMAIN document_frequencies)

\* C17: in KeywordIndexer a query term that occurs in no held chunk adds
\* exactly 0 to every chunk's score; a query whose terms are all absent, a
\* query without word characters, and any query on an empty index return
\* the empty list without raising.
C17_AbsentTermsScoreZero ==
    kind = "keyword" =>
        /\ \A c \in DOMAIN term_frequencies, q \in KwQueries :
              CalculateBm25Score(PreprocessText(q), c)
                  = CalculateBm25Score(HeldTerms(q), c)
        /\ (ret.op = "search" /\ (documents = <<>> \/ HeldTerms(ret.query) = <<>>))
              => (~ret.raised /\ ret.value = <<>>)

\* a search for a term no chunk holds, on an indexer that holds a chunk of
\* its own session
C17_Witness ==
    /\ kind = "keyword" /\ ret.op = "search"
    /\ ret.query = <<"z">> /\ ret.filters = EmptyDict
    /\ \E i \in DOMAIN documents : OwnChunk(documents[i])

(***************************************************************************)
(* Properties of every indexer.                                            *)
(***************************************************************************)
\* C18: search and get_index_stats leave documents_indexed and
\* chunks_created unchanged; a successful index_document raises
\* documents_indexed by 1 and chunks_created by the chunks_created it
\* returns; delete_session_data sets both to 0, and no other call lowers
\* either counter.
C18_StatsCounters ==
    [][/\ ret'.op \in {"search", "get_index_stats"} =>
             /\ index_stats'.documents_indexed = index_stats.documents_indexed
             /\ index_stats'.chunks_created = index_stats.chunks_created
       /\ (ret'.op = "index_document" /\ ~ret'.raised) =>
             /\ index_stats'.documents_indexed = index_stats.documents_indexed + 1
             /\ index_stats'.chunks_created
                   = index_stats.chunks_created + ret'.value.chunks_created
       /\ ret'.op = "delete_session_data" =>
             /\ index_stats'.documents_indexed = 0
             /\ index_stats'.chunks_created = 0
       /\ (\/ index_stats'.documents_indexed < index_stats.documents_indexed
           \/ index_stats'.chunks_created < index_stats.chunks_created)
             => ret'.op = "delete_session_data"]_vars

\* an index_document after a delete_session_data that had reset the counters
C18_Witness ==
    /\ ret.op = "index_document" /\ ~ret.raised
    /\ next_uuid = 2
    /\ index_stats.documents_indexed = 1
    /\ index_stats.chunks_created = ret.value.chunks_created

\* C19: index_document only appends: every chunk stored before the call is
\* at the same place of documents after it, with the same content, metadata
\* and chunk_index, and in KeywordIndexer the same term-frequency map and
\* token count.
C19_IndexOnlyAppends ==
    [][ret'.op = "index_document" =>
          /\ Len(documents') >= Len(documents)
          /\ SubSeq(documents', 1, Len(documents)) = documents
          /\ \A c \in DOMAIN term_frequencies :
                /\ c \in DOMAIN term_frequencies'
                /\ term_frequencies'[c] = term_frequencies[c]
          /\ \A c \in DOMAIN doc_lengths :
                /\ c \in DOMAIN doc_lengths'
                /\ doc_lengths'[c] = doc_lengths[c]]_vars

\* an index_document on an indexer that already held chunks
C19_Witness ==
    /\ ret.op = "index_document" /\ ~ret.raised
    /\ Len(documents) > ret.value.chunks_created

(***************************************************************************)
(* Properties of IndexingFactory.                                          *)
(***************************************************************************)
\* C12: create_indexer looks the strategy up by its lower-cased name, so
\* names that differ only in letter case select the same class; for a name
\* whose lower-cased form is no registry key it raises a ValueError whose
\* message lists every registered name, and no indexer is constructed.
C12_FactoryCaseAndUnknown ==
    ret.op = "create_indexer" =>
        IF \E i \in DOMAIN IndexerClasses : IndexerClasses[i].name = Lower(ret.query)
        THEN /\ ~ret.raised
             /\ \A i \in DOMAIN IndexerClasses :
                   IndexerClasses[i].name = Lower(ret.query)
                       => (kind = IndexerClasses[i].class
                           /\ ret.value = IndexerClasses[i].class)
        ELSE /\ ret.raised
             /\ kind = "none"
             /\ \A i \in DOMAIN IndexerClasses :
                   Find(ret.value, IndexerClasses[i].name) # -1

\* create_indexer was called with a name in capitals that is registered in
\* small letters
C12_Witness ==
    /\ ret.op = "create_indexer"
    /\ ret.query = <<"K", "E", "Y", "W", "O", "R", "D">>
    /\ kind = "keyword"

(***************************************************************************)
(* Properties of EnhancedSemanticIndexer._deduplicate_results.             *)
(***************************************************************************)
\* the first DedupPrefix characters of a result's content
Prefix(result) == Take(result.content, DedupPrefix)

\* the candidate at this place of the input is in the output
IsKept(place) == \E k \in DOMAIN ret.value : ret.value[k].chunk_index = place

\* C13: the output of _deduplicate_results is a subsequence of its input in
\* the same order; of the candidates with the same first 100 characters the
\* first-encountered is kept and no later one is; no two kept results have
\* the same first 100 characters.
C13_DedupFirstSeenWins ==
    ret.op = "_deduplicate_results" =>
        /\ \A k \in DOMAIN ret.value :
              /\ ret.value[k].chunk_index \in DOMAIN ret.query
              /\ ret.value[k] = ret.query[ret.value[k].chunk_index]
        /\ \A k, l \in DOMAIN ret.value :
              k < l => ret.value[k].chunk_index < ret.value[l].chunk_index
        /\ \A i, j \in DOMAIN ret.query :
              (i < j /\ Prefix(ret.query[i]) = Prefix(ret.query[j])) =>
                  /\ ~IsKept(j)
                  /\ \/ IsKept(i)
                     \/ \E h \in 1..(i - 1) : Prefix(ret.query[h]) = Prefix(ret.query[i])
        /\ \A k, l \in DOMAIN ret.value :
              k # l => Prefix(ret.value[k]) # Prefix(ret.value[l])

(***************************************************************************)
(* Properties of the BM25 score.                                           *)
(***************************************************************************)
\* C16: in every state of a KeywordIndexer, for every held term (its
\* document frequency df and the chunk count N as they are) and every held
\* chunk (its length and the average length as they are), the BM25
\* contribution of the term does not fall when its frequency in the chunk
\* rises by one.
C16_Bm25MonotoneInTf ==
    (kind = "keyword" /\ avg_doc_length.num > 0) =>
        \A c \in DOMAIN doc_lengths, t \in DOMAIN document_frequencies :
            \A tf \in 1..(doc_lengths[c] - 1) :
                TermScore(tf, document_frequencies[t], total_documents,
                          doc_lengths[c], avg_doc_length)
                    <= TermScore(tf + 1, document_frequencies[t], total_documents,
                                 doc_lengths[c], avg_doc_length)

(***************************************************************************)
(* Properties of a KeywordIndexer used by two threads.                     *)
(***************************************************************************)
\* C20: with one thread in index_document and one in search on the same
\* KeywordIndexer, under every interleaving the search does not raise and
\* returns what it returns on the state before the ingest started or what
\* it returns on the state after the ingest finished.
C20_ConcurrentSearchAtomic ==
    (kind = "keyword" /\ writer.pc = "done" /\ reader.pc = "done") =>
        /\ ~reader.raised
        /\ reader.value \in
              {writer.before[reader.query],
               KwSearchResults(reader.query, DefaultTopK, EmptyDict)}

(***************************************************************************)
(* Properties of the average chunk length of a KeywordIndexer.             *)
(***************************************************************************)
\* C21: after every completed index_document or delete_session_data on a
\* KeywordIndexer, avg_doc_length, which get_index_stats reports, is the
\* mean token count over the chunks held, and is 0 when no chunk is held.
C21_AvgDocLengthIsMean ==
    (kind = "keyword" /\ ret.op \in {"index_document", "delete_session_data"}) =>
        LET avg == KwIndexStats.avg_doc_length
            held == DOMAIN doc_lengths
        IN  IF held = {}
            THEN avg.num = 0
            ELSE avg.num * Cardinality(held) = SumOver(doc_lengths, held) * avg.den

(***************************************************************************)
(* _create_multi_strategy_chunks applied to drawn documents.               *)
(***************************************************************************)
MaxDocLen == 3

DocSymbols == {"a", " ", "\n", "Email"}

\* a resume of one line, one character longer than the section cap
LongLine == [i \in 1..(SectionCap + 1) |-> "a"]

SectionInputs == UNION {[1..n -> DocSymbols] : n \in 0..MaxDocLen} \cup {LongLine}

SectionInit == kind = "enhanced" /\ CommonInit

DrawDocument ==
    /\ kind = "enhanced"
    /\ ret = NoCall
    /\ \E document \in SectionInputs :
         ret' = Ret("draw_document", FALSE, None, document, EmptyDict, 0, <<>>)
    /\ UNCHANGED <<ragVars, threadVars, kind, documents, index_stats, kwVars, vecVars, next_uuid, phase>>

\* a call of _create_multi_strategy_chunks on the drawn document
CreateChunks ==
    /\ kind = "enhanced"
    /\ ret.op = "draw_document"
    /\ ret' = Ret("_create_multi_strategy_chunks", FALSE,
                   CreateMultiStrategyChunks(ret.query), ret.query, EmptyDict, 0, <<>>)
    /\ UNCHANGED <<ragVars, threadVars, kind, documents, index_stats, kwVars, vecVars, next_uuid, phase>>

SectionNext == DrawDocument \/ CreateChunks

SectionSpec == SectionInit /\ [][SectionNext]_vars

\* C22: every chunk of type section that _create_multi_strategy_chunks
\* produces, whatever the section name (header included) and the document,
\* is non-empty and at most 800 characters long.
C22_SectionChunksCapped ==
    (kind = "enhanced" /\ ret.op = "_create_multi_strategy_chunks") =>
        \A j \in DOMAIN ret.value :
            ret.value[j].type = "section" =>
                /\ ret.value[j].content # <<>>
                /\ Len(ret.value[j].content) <= SectionCap

(***************************************************************************)
(* KeywordIndexer._chunk_text applied to drawn texts.                      *)
(***************************************************************************)
MaxTextLen == 7

TextSymbols == {"a", " ", "."}

ChunkInputs == UNION {[1..n -> TextSymbols] : n \in 0..MaxTextLen}

ChunkInit == kind = "keyword" /\ CommonInit

DrawText ==
    /\ kind = "keyword"
    /\ ret = NoCall
    /\ \E text \in ChunkInputs :
         ret' = Ret("draw_text", FALSE, None, text, EmptyDict, 0, <<>>)
    /\ UNCHANGED <<ragVars, threadVars, kind, documents, index_stats, kwVars, vecVars, next_uuid, phase>>

\* a call of _chunk_text on the drawn text
ChunkTextCall ==
    /\ kind = "keyword"
    /\ ret.op = "draw_text"
    /\ ret' = Ret("_chunk_text", FALSE, ChunkText(ret.query), ret.query, EmptyDict, 0, <<>>)
    /\ UNCHANGED <<ragVars, threadVars, kind, documents, index_stats, kwVars, vecVars, next_uuid, phase>>

ChunkNext == DrawText \/ ChunkTextCall

ChunkSpec == ChunkInit /\ [][ChunkNext]_vars

\* the non-empty sentences of a text, stripped, in their order
SentencesOf(text) ==
    LET pieces == ReSplit(text, <<>>)
    IN  SelectSeq([i \in DOMAIN pieces |-> Strip(pieces[i])], LAMBDA s : s # <<>>)

\* how many sentences, from sentences[from] on, joined by single spaces make
\* the chunk; 0 if no number does
GroupSize(sentences, from, chunk) ==
    LET ns == {n \in 1..(Len(sentences) - from + 1) :
                  JoinWith(SubSeq(sentences, from, from + n - 1), " ") = chunk}
    IN  IF ns = {} THEN 0 ELSE CHOOSE n \in ns : TRUE

\* chunks[k], chunks[k + 1], ... are the sentences from sentences[from] on,
\* in order and each once; a chunk is within chunk_size or a single sentence;
\* a sentence was appended only if the joined length stayed within
\* chunk_size, and a chunk was closed only if the next sentence did not fit
RECURSIVE IsPacking(_, _, _, _)
IsPacking(sentences, from, chunks, k) ==
    IF k > Len(chunks) THEN from = Len(sentences) + 1
    ELSE LET n == GroupSize(sentences, from, chunks[k])
         IN  /\ n > 0
             /\ (Len(chunks[k]) <= ChunkSize \/ n = 1)
             /\ \A j \in 2..n :
                   Len(JoinWith(SubSeq(sentences, from, from + j - 1), " ")) <= ChunkSize
             /\ (from + n <= Len(sentences)) =>
                   Len(chunks[k]) + 1 + Len(sentences[from + n]) > ChunkSize
             /\ IsPacking(sentences, from + n, chunks, k + 1)

\* C23 as stated: the packing of C23 below, and every chunk of every result,
\* the whole-text chunk of a text without a non-empty sentence too, is at most
\* chunk_size long or is a single sentence.
C23_EveryChunkBounded ==
    (kind = "keyword" /\ ret.op = "_chunk_text") =>
        /\ IF SentencesOf(ret.query) = <<>>
           THEN ret.value = <<ret.query>>
           ELSE IsPacking(SentencesOf(ret.query), 1, ret.value, 1)
        /\ \A k \in DOMAIN ret.value :
              \/ Len(ret.value[k]) <= ChunkSize
              \/ ret.value[k] \in Range(SentencesOf(ret.query))

\* C23: when the text has a non-empty sentence, _chunk_text puts the
\* non-empty sentences into the chunks in their order, each into exactly one
\* chunk; a chunk is at most chunk_size long or is a single sentence; a
\* sentence joins the current chunk exactly when the joined length does not
\* exceed chunk_size.  A text without a non-empty sentence gives the single
\* chunk that is the whole text, whatever its length.
C23_ChunkTextPacksSentences ==
    (kind = "keyword" /\ ret.op = "_chunk_text") =>
        IF SentencesOf(ret.query) = <<>>
        THEN ret.value = <<ret.query>>
        ELSE IsPacking(SentencesOf(ret.query), 1, ret.value, 1)

\* a text of three sentences: the second joined the first, the third did not fit
C23_Witness ==
    /\ kind = "keyword"
    /\ ret.op = "_chunk_text"
    /\ Len(SentencesOf(ret.query)) = 3
    /\ Len(ret.value) = 2
    /\ GroupSize(SentencesOf(ret.query), 1, ret.value[1]) = 2

(***************************************************************************)
(* The semantic indexers with an adapter whose add_texts can raise.        *)
(***************************************************************************)
\* index_document with an adapter whose add_texts raises
VecIndexDocumentFails == VecIndex(TRUE)

AddFailNext == VecNext \/ VecIndexDocumentFails

AddFailSpec == VecInit /\ [][AddFailNext]_vars

\* C24: an index_document of a SemanticIndexer or an EnhancedSemanticIndexer
\* during which add_texts raises, raises to the caller and leaves the
\* documents list, the stats counters and full_text as they were before the
\* call, so that total_chunks still equals chunks_created.
C24_FailedIngestLeavesIndexer ==
    [][(IsVec /\ ret'.op = "index_document" /\ ret'.raised) =>
          /\ documents' = documents
          /\ index_stats' = index_stats
          /\ full_text' = full_text
          /\ (Len(documents) = index_stats.chunks_created =>
                Len(documents') = index_stats'.chunks_created)]_vars

(***************************************************************************)
(* Properties of the keyword fallback of EnhancedSemanticIndexer.          *)
(***************************************************************************)
\* C25: with an adapter that honours the filter it is given, every result
\* that EnhancedSemanticIndexer.search returns under a caller's filters map F,
\* the synthetic results of the keyword fallback included, has metadata equal
\* to F on every key of F.
C25_FiltersCoverFallback ==
    (kind = "enhanced" /\ ret.op = "search") =>
        \A j \in DOMAIN ret.value :
            \A key \in DOMAIN ret.filters :
                Get(ret.value[j].metadata, key) = ret.filters[key]

\* the results the vector and contact sub-searches of the last search gave
SubSearchResults == SumOver([j \in DOMAIN ret.calls |-> Len(ret.calls[j].results)],
                            DOMAIN ret.calls)

\* C28: the keyword fallback covers every document ingested since the last
\* delete: when a search triggers the fallback and a term of the query occurs
\* in a chunk ingested since then (of the last document or of an earlier one),
\* the fallback yields a synthetic result that contains the term.
C28_FallbackCoversEveryDocument ==
    (/\ kind = "enhanced"
     /\ ret.op = "search"
     /\ \A j \in DOMAIN ret.calls : ~ret.calls[j].raised
     /\ SubSearchResults < FallbackThreshold) =>
        \A term \in Range(SplitWhitespace(LowerText(ret.query))) :
            (\E i \in DOMAIN documents :
                /\ OwnChunk(documents[i])
                /\ Find(LowerText(documents[i].content), term) # -1) =>
                \E j \in DOMAIN KeywordSearch(ret.query, ret.filters) :
                    Find(LowerText(KeywordSearch(ret.query, ret.filters)[j].content),
                         term) # -1

(***************************************************************************)
(* Recall of the keyword search.                                           *)
(***************************************************************************)
\* the chunks were all ingested without caller-supplied session_id metadata
NoForeignChunk == \A i \in DOMAIN documents : OwnChunk(documents[i])

\* C26: in a state of a KeywordIndexer reached by index_document calls without
\* caller-supplied session_id metadata, a search without filters and with
\* top_k >= 1 whose query has a term occurring in a held chunk returns a
\* non-empty list; when a single chunk is held it returns that chunk.
C26_KeywordRecall ==
    (/\ kind = "keyword"
     /\ ret.op = "search"
     /\ ret.filters = EmptyDict
     /\ ret.top_k >= 1
     /\ NoForeignChunk
     /\ HeldTerms(ret.query) # <<>>) =>
        /\ ~ret.raised
        /\ ret.value # <<>>
        /\ Len(documents) = 1 => ret.value[1].content = documents[1].content

(***************************************************************************)
(* RAGService: the sessions and their indexers.  The indexer of a session  *)
(* is held as its class and the chunks it was given; whether its search    *)
(* finds anything, what the language model answers and what its            *)
(* delete_session_data returns are inputs of the calls.                    *)
(***************************************************************************)
\* ingest_resume calls in one run
MaxSessions == 2

\* the values Settings accepts for indexing_strategy
ConfigStrategies == {
    <<"s", "e", "m", "a", "n", "t", "i", "c">>,
    <<"k", "e", "y", "w", "o", "r", "d">>,
    <<"h", "y", "b", "r", "i", "d">>,
    <<"m", "e", "t", "a", "d", "a", "t", "a">>,
    <<"a", "d", "v", "a", "n", "c", "e", "d">> }

\* what _extract_text_from_file gives: a resume, or a file of blanks
RagTexts == {DocSkills, <<" ", "\n">>}

\* session ids a caller passes: every uuid a run can draw, and one never drawn
SessionArgs == {Uuid(n) : n \in 1..(2 * MaxSessions)} \cup {"d0"}

\* what the language model does with the prompt: it answers, it answers null,
\* or the call raises
LlmOutcomes == {"answer", "null", "raises"}

\* the record of a call on the service: arg is the text passed to
\* ingest_resume, or the session id passed, as a text of one symbol; calls are
\* the calls made on the session's indexer
RagRet(op, raised, value, arg, calls) == Ret(op, raised, value, arg, EmptyDict, 0, calls)

\* raise Exception(f"Failed to ingest resume: {str(e)}")
IngestError(message) == <<"Failed to ingest resume: ">> \o message

\* the chunks index_document of the class makes of a text
ChunksOf(class, text) ==
    IF class = "keyword" THEN ChunkText(text)
    ELSE IF class = "enhanced" THEN CreateMultiStrategyChunks(text)
    ELSE SemChunks(text)

\* RAGService.ingest_resume; add_fails: add_texts of the adapter raises
IngestResume ==
    /\ kind = "none"
    /\ next_uuid + 2 <= 2 * MaxSessions
    /\ \E text_content \in RagTexts, add_fails \in BOOLEAN :
         LET sid == Uuid(next_uuid + 1)
             strategy == NormalizeStrategy(indexing_strategy)
             class == IndexerClass(strategy)
             chunks == ChunksOf(class, text_content)
             Fails(message, uuids) ==
                 /\ ret' = RagRet("ingest_resume", TRUE, IngestError(message),
                                  text_content, <<>>)
                 /\ next_uuid' = next_uuid + uuids
                 /\ active_sessions' = active_sessions
         IN  IF Strip(text_content) = <<>>
             THEN Fails(<<"No text content found in the uploaded file">>, 1)
             ELSE IF ~IsRegistered(strategy)
             THEN Fails(UnknownStrategyMessage(strategy), 1)
             ELSE IF class # "keyword" /\ add_fails
             THEN Fails(<<"add_texts">>, 2)
             ELSE /\ active_sessions' =
                        Merge(active_sessions,
                              [s \in {sid} |->
                                  [indexer |-> [kind |-> class,
                                                total_chunks |-> Len(chunks)],
                                   text_content |-> text_content]])
                  /\ ret' = RagRet("ingest_resume", FALSE,
                                   [session_id |-> sid, chunks_created |-> Len(chunks)],
                                   text_content, <<>>)
                  /\ next_uuid' = next_uuid + 2
    /\ UNCHANGED <<threadVars, kind, documents, index_stats, kwVars, vecVars, phase,
                   indexing_strategy>>

\* the QueryResponse: confidence in tenths
QueryResponse(answer, confidence, reasoning) ==
    [answer |-> answer, confidence |-> confidence, reasoning |-> reasoning]

\* RAGService.query_resume; found: the indexer's search returned results
QueryResume ==
    /\ kind = "none"
    /\ \E sid \in SessionArgs, found \in BOOLEAN, llm \in LlmOutcomes :
         ret' = RagRet("query_resume", FALSE,
                    IF sid \notin DOMAIN active_sessions
                    THEN QueryResponse(None, 0, "Error processing query")
                    ELSE IF ~found
                    THEN QueryResponse(None, 0, "No relevant information found")
                    ELSE IF llm = "raises"
                    THEN QueryResponse(None, 0, "Error processing query")
                    ELSE IF llm = "null"
                    THEN QueryResponse(None, 2, "llm")
                    ELSE QueryResponse("answer", 9, "llm"),
                    <<sid>>,
                    IF sid \in DOMAIN active_sessions
                    THEN <<[call |-> "search", returned |-> found]>> ELSE <<>>)
    /\ UNCHANGED <<ragVars, threadVars, kind, documents, index_stats, kwVars, vecVars,
                   next_uuid, phase>>

\* AfterDelete with the session left in place
AfterDeleteKeepsSession(sessions, sid) == sessions

\* del self.active_sessions[session_id]
AfterDelete(sessions, sid) == [s \in (DOMAIN sessions) \ {sid} |-> sessions[s]]

\* RAGService.delete_session; deleted: what the indexer's delete_session_data
\* returns (False when its body raised)
DeleteSession ==
    /\ kind = "none"
    /\ \E sid \in SessionArgs, deleted \in BOOLEAN :
         IF sid \in DOMAIN active_sessions
         THEN /\ active_sessions' = AfterDelete(active_sessions, sid)
              /\ ret' = RagRet("delete_session", FALSE, TRUE, <<sid>>,
                               <<[call |-> "delete_session_data",
                                  returned |-> deleted]>>)
         ELSE /\ active_sessions' = active_sessions
              /\ ret' = RagRet("delete_session", FALSE, FALSE, <<sid>>, <<>>)
    /\ UNCHANGED <<threadVars, kind, documents, index_stats, kwVars, vecVars,
                   next_uuid, phase, indexing_strategy>>

\* RAGService.get_session_stats
GetSessionStats ==
    /\ kind = "none"
    /\ \E sid \in SessionArgs :
         ret' = RagRet("get_session_stats", FALSE,
                    IF sid \notin DOMAIN active_sessions THEN None
                    ELSE [session_id |-> sid,
                          index_stats |-> active_sessions[sid].indexer],
                    <<sid>>,
                    IF sid \in DOMAIN active_sessions
                    THEN <<[call |-> "get_index_stats", returned |-> TRUE]>> ELSE <<>>)
    /\ UNCHANGED <<ragVars, threadVars, kind, documents, index_stats, kwVars, vecVars,
                   next_uuid, phase>>

\* the service after its constructor, under any accepted configuration
RagInit ==
    /\ kind = "none"
    /\ IndexerFresh
    /\ active_sessions = EmptyDict
    /\ indexing_strategy \in ConfigStrategies

RagNext == IngestResume \/ QueryResume \/ DeleteSession \/ GetSessionStats

RagSpec == RagInit /\ [][RagNext]_vars

(***************************************************************************)
(* Properties of RAGService.                                               *)
(***************************************************************************)
\* the uuid4() values drawn so far
Drawn == {Uuid(n) : n \in 1..next_uuid}

\* C27: a session id enters active_sessions exactly when an ingest_resume
\* completes (a failed one registers none) and leaves it exactly at
\* delete_session; delete_session(s) returns True iff s was active, and
\* removes it; an id that was drawn and is not active (a deleted one is such)
\* never becomes active again, and for an id that is not active
\* query_resume(s) returns answer None with confidence 0.0 without raising,
\* get_session_stats(s) returns None and delete_session(s) returns False.
C27_SessionLifecycle ==
    [][LET sid == ret'.query[1]
           before == DOMAIN active_sessions
           after == DOMAIN active_sessions'
       IN  /\ before \subseteq Drawn
           /\ \A s \in Drawn \ before : s \notin after
           /\ (ret'.op = "ingest_resume" /\ ~ret'.raised) =>
                 /\ ret'.value.session_id \notin before
                 /\ after = before \cup {ret'.value.session_id}
           /\ (ret'.op = "ingest_resume" /\ ret'.raised) => after = before
           /\ ret'.op = "delete_session" =>
                 /\ ~ret'.raised
                 /\ ret'.value = (sid \in before)
                 /\ after = before \ {sid}
           /\ ret'.op = "query_resume" =>
                 /\ after = before
                 /\ sid \notin before =>
                       /\ ~ret'.raised
                       /\ ret'.value.answer = None
                       /\ ret'.value.confidence = 0
           /\ ret'.op = "get_session_stats" =>
                 /\ after = before
                 /\ IF sid \in before THEN ret'.value.session_id = sid
                    ELSE ret'.value = None]_vars

\* delete_session returned True for one of two active sessions
C27_Witness ==
    /\ ret.op = "delete_session"
    /\ ret.value = TRUE
    /\ ret.query[1] \notin DOMAIN active_sessions
    /\ DOMAIN active_sessions # {}

\* C29: every value the configuration accepts for indexing_strategy is a key
\* of the factory registry, so that the create_indexer call of ingest_resume,
\* made with the configured strategy, never fails with the unknown-strategy
\* error.
C29_ConfiguredStrategyRegistered ==
    (ret.op = "ingest_resume" /\ Strip(ret.query) # <<>>) =>
        /\ IsRegistered(NormalizeStrategy(indexing_strategy))
        /\ ~(/\ ret.raised
             /\ ret.value =
                   IngestError(UnknownStrategyMessage(NormalizeStrategy(indexing_strategy))))

\* C30: when the indexer's delete_session_data returns False,
\* RAGService.delete_session returns False and the session stays in
\* active_sessions.
C30_DeleteFailureReported ==
    (/\ ret.op = "delete_session"
     /\ ret.calls # <<>>
     /\ ~ret.calls[1].returned) =>
        /\ ret.value = FALSE
        /\ ret.query[1] \in DOMAIN active_sessions

====
